---- MODULE Spec2Model ----
(***************************************************************************)
(* A model of the two helper modules of the repository:                    *)
(*   src/logger.py            class Logger (the metrics recorder)          *)
(*   src/src/envs/common.py   the environment factory and the focus-file   *)
(*                            name/path derivations                        *)
(* Three specifications share the module, one per component:               *)
(*   SpecLogger  a Logger instance and its log_episode / log_data calls    *)
(*   SpecEnv     one call of init_vec_env or init_train_eval_envs, stepped *)
(*               from one library call to the next (each may raise)        *)
(*   SpecFocus   one call of get_pruned_focus_file_from_env_name or        *)
(*               get_focus_file_path on a bounded set of names             *)
(* Strings that the code takes apart (environment names) are sequences of  *)
(* one-character strings. Python's None is the empty tuple <<>>.           *)
(***************************************************************************)
EXTENDS Integers, Sequences, FiniteSets, TLC

VARIABLES
    \* ---- Logger (src/logger.py) ----
    n_eps,        \* self.n_eps
    n_calls,      \* history: number of log_episode calls made on the instance
    last_op,      \* history: the last method called and its arguments
    scalars,      \* the add_scalar calls the last method call made, in order
    info,         \* the logging.info line of the last log_episode call
    log_raised,   \* the exception the last method call raised, or "none"
    \* ---- environment factory (src/src/envs/common.py) ----
    entry,        \* the function the caller invoked
    args,         \* its arguments
    pc,           \* position in the running init_vec_env invocation
    phase,        \* which init_vec_env invocation runs: "single", "train", "eval"
    eval_seed,    \* local of init_train_eval_envs (None before line 62)
    loc,          \* locals of the running init_vec_env invocation
    train_env,    \* local of init_train_eval_envs: <<>> or <<handle>>
    live,         \* objects constructed so far and never closed
    n_built,      \* environments/containers the running init_vec_env invocation constructed
    fault,        \* history: the exception a step of the call raised, or "none"
    raised,       \* the exception that reached the caller, or "none"
    ret,          \* what the caller received: <<>>, <<handle>> or <<train, eval>>
    \* ---- focus-file derivations (src/src/envs/common.py) ----
    f_fn,         \* the derivation function called
    f_name,       \* env_name / name
    f_concept,    \* prune_concept
    f_pc,         \* "call" before the call, "done" after it
    f_out         \* the outcome of the call

logger_vars == <<n_eps, n_calls, last_op, scalars, info, log_raised>>
env_vars    == <<entry, args, pc, phase, eval_seed, loc, train_env, live, n_built, fault, raised, ret>>
focus_vars  == <<f_fn, f_name, f_concept, f_pc, f_out>>
vars        == <<logger_vars, env_vars, focus_vars>>

None == <<>>

(***************************************************************************)
(* Bounds and input samples                                                *)
(***************************************************************************)
MaxEps == 3
MaxEpSteps == 2
MaxEnvs == 2
MaxNameLen == 3

\* ------------------------------------------------------------------------
\* Numbers written by the recorder: exact rationals in lowest terms; the
\* pair 0/0 is numpy's nan.
\* ------------------------------------------------------------------------
Abs(x) == IF x < 0 THEN -x ELSE x

RECURSIVE Gcd(_, _)
Gcd(a, b) == IF b = 0 THEN a ELSE Gcd(b, a % b)

Val(x) == [num |-> x, den |-> 1]

NaN == [num |-> 0, den |-> 0]

\* n / d for d > 0
Frac(n, d) == LET g == Gcd(Abs(n), d) IN [num |-> n \div g, den |-> d \div g]

RECURSIVE Sum(_)
Sum(s) == IF s = <<>> THEN 0 ELSE Head(s) + Sum(Tail(s))

\* np.mean(lens): nan (with a warning, no exception) on an empty sequence
NpMean(lens) == IF Len(lens) = 0 THEN NaN ELSE Frac(Sum(lens), Len(lens))

Scalar(tag, value, step) == [tag |-> tag, value |-> value, step |-> step]

(***************************************************************************)
(* Logger                                                                  *)
(***************************************************************************)
\* line 31: self.n_eps += 1
IncrSkipped(n) == n
Incr(n) == n + 1

\* line 41: np.mean(lens) if len(lens) > 0 else 0
AvgLengthUnguarded(lens) == NpMean(lens)
AvgLength(lens) == IF Len(lens) > 0 THEN NpMean(lens) ELSE Val(0)

\* line 42: sum(lens) / ep_steps; Python raises ZeroDivisionError on / 0
ActiveGuarded(lens, ep_steps) ==
    IF ep_steps = 0 THEN [raised |-> "none", value |-> Val(0)]
    ELSE [raised |-> "none", value |-> Frac(Sum(lens), ep_steps)]
Active(lens, ep_steps) ==
    IF ep_steps = 0 THEN [raised |-> "ZeroDivisionError", value |-> NaN]
    ELSE [raised |-> "none", value |-> Frac(Sum(lens), ep_steps)]

\* lines 38-43: the loop over option_lengths.items(), in the mapping's order.
\* items is the sequence of <<option, lens>> pairs; out the scalars so far.
RECURSIVE OptionStats(_, _, _, _)
OptionStats(items, ep_steps, step, out) ==
    IF items = <<>> THEN [raised |-> "none", scalars |-> out]
    ELSE LET option == Head(items)[1]
             lens   == Head(items)[2]
             avg    == Scalar(<<"option", option, "avg_length">>, AvgLength(lens), step)
             act    == Active(lens, ep_steps)
         IN IF act.raised # "none"
            THEN [raised |-> act.raised, scalars |-> Append(out, avg)]
            ELSE OptionStats(Tail(items), ep_steps, step,
                             out \o <<avg, Scalar(<<"option", option, "active">>, act.value, step)>>)

\* ---- inputs ----
Options == {0, 1}
LensSamples == {<<>>, <<2>>, <<3, 3, 1>>}
OptionLengthsSamples ==
    {<<>>}
    \cup {<< <<o, l>> >> : o \in Options, l \in LensSamples}
    \cup {m \in {<< <<o1, l1>>, <<o2, l2>> >> : o1 \in Options, o2 \in Options,
                                                    l1 \in LensSamples, l2 \in LensSamples} :
              m[1][1] # m[2][1]}
StepSamples == {1, 7}
RewardSamples == {-1, 5}
\* a loss is None or a one-element tensor <<v>>
LossSamples == {None, <<0>>, <<2>>, <<-1>>}
EntropySamples == {1}
EpsilonSamples == {1}

\* bool(tensor): a one-element tensor is true iff its element is non-zero;
\* bool(None) is false
Truthy(loss) == loss # None /\ loss[1] # 0

\* lines 9-28
InitLogger ==
    /\ n_eps = 0
    /\ n_calls = 0
    /\ last_op = [op |-> "__init__", steps |-> 0, reward |-> 0, option_lengths |-> <<>>,
                  ep_steps |-> 0, actor_loss |-> None, critic_loss |-> None]
    /\ scalars = <<>>
    /\ info = None
    /\ log_raised = "none"

\* lines 30-43
log_episode(steps, reward, option_lengths, ep_steps, epsilon) ==
    LET n == Incr(n_eps)
        head == <<Scalar(<<"episodic_rewards">>, Val(reward), n),
                  Scalar(<<"episode_lengths">>, Val(ep_steps), n)>>
        r == OptionStats(option_lengths, ep_steps, n, head)
    IN /\ n_eps < MaxEps
       /\ n_eps' = n
       /\ n_calls' = n_calls + 1
       /\ last_op' = [op |-> "log_episode", steps |-> steps, reward |-> reward,
                      option_lengths |-> option_lengths, ep_steps |-> ep_steps,
                      actor_loss |-> None, critic_loss |-> None]
       /\ info' = <<n, steps, reward, ep_steps, epsilon>>
       /\ scalars' = r.scalars
       /\ log_raised' = r.raised

\* lines 45-51
log_data(step, actor_loss, critic_loss, entropy, epsilon) ==
    /\ scalars' = (IF Truthy(actor_loss)
                   THEN <<Scalar(<<"actor_loss">>, Val(actor_loss[1]), step)>> ELSE <<>>)
               \o (IF Truthy(critic_loss)
                   THEN <<Scalar(<<"critic_loss">>, Val(critic_loss[1]), step)>> ELSE <<>>)
               \o <<Scalar(<<"policy_entropy">>, Val(entropy), step),
                    Scalar(<<"epsilon">>, Val(epsilon), step)>>
    /\ last_op' = [op |-> "log_data", steps |-> step, reward |-> 0, option_lengths |-> <<>>,
                   ep_steps |-> 0, actor_loss |-> actor_loss, critic_loss |-> critic_loss]
    /\ log_raised' = "none"
    /\ UNCHANGED <<n_eps, n_calls, info>>

LogEpisodeCall ==
    \E steps \in StepSamples, reward \in RewardSamples,
       option_lengths \in OptionLengthsSamples, ep_steps \in 0..MaxEpSteps,
       epsilon \in EpsilonSamples :
        /\ log_episode(steps, reward, option_lengths, ep_steps, epsilon)
        /\ UNCHANGED <<env_vars, focus_vars>>

LogDataCall ==
    \E step \in StepSamples, actor_loss \in LossSamples, critic_loss \in LossSamples,
       entropy \in EntropySamples, epsilon \in EpsilonSamples :
        /\ log_data(step, actor_loss, critic_loss, entropy, epsilon)
        /\ UNCHANGED <<env_vars, focus_vars>>

(***************************************************************************)
(* Focus-file derivations                                                  *)
(***************************************************************************)
\* A Python str is a sequence of one-character strings.
ALE == <<"A", "L", "E">>
YAML == <<".", "y", "a", "m", "l">>
DEFAULT_FOCUS_ == <<"d", "e", "f", "a", "u", "l", "t", "_", "f", "o", "c", "u", "s", "_">>

\* sub in s
Contains(s, sub) ==
    \E i \in 1..(Len(s) - Len(sub) + 1) : SubSeq(s, i, i + Len(sub) - 1) = sub

\* s.split(sep) for a one-character sep: always at least one segment
RECURSIVE SplitFrom(_, _, _)
SplitFrom(s, sep, cur) ==
    IF s = <<>> THEN <<cur>>
    ELSE IF Head(s) = sep THEN <<cur>> \o SplitFrom(Tail(s), sep, <<>>)
    ELSE SplitFrom(Tail(s), sep, Append(cur, Head(s)))
Split(s, sep) == SplitFrom(s, sep, <<>>)

\* str.lower() on the letters of the alphabet in use
LowerChar(c) ==
    CASE c = "A" -> "a" [] c = "B" -> "b" [] c = "C" -> "c" [] c = "E" -> "e"
      [] c = "G" -> "g" [] c = "L" -> "l" [] c = "M" -> "m" [] c = "P" -> "p"
      [] c = "X" -> "x" [] OTHER -> c
Lower(s) == [i \in 1..Len(s) |-> LowerChar(s[i])]

\* s[4:]
From4(s) == SubSeq(s, 5, Len(s))

\* lines 23-25: env_name.split("/")[1].split("-")[0].lower(); the index [1]
\* raises IndexError when env_name holds no "/"
get_atari_identifier(env_name) ==
    LET parts == Split(env_name, "/")
    IN IF Len(parts) < 2 THEN [raised |-> "IndexError", value |-> <<>>]
       ELSE [raised |-> "none", value |-> Lower(Split(parts[2], "-")[1])]

\* lines 164-167 and 172-175: the identifier of a name
EnvIdentifier(name) ==
    IF Contains(name, ALE) THEN get_atari_identifier(name)
    ELSE [raised |-> "none", value |-> name]

\* lines 163-168
get_pruned_focus_file_from_env_name(name) ==
    LET id == EnvIdentifier(name)
    IN IF id.raised # "none" THEN id
       ELSE [raised |-> "none", value |-> id.value \o YAML]

\* pathlib.Path(dir, file): the parts of the joined path. dir is one opaque
\* part; an absolute file ("/...") replaces dir; empty and "." segments drop.
PathSegments(file) ==
    SelectSeq(Split(file, "/"), LAMBDA seg : seg # <<>> /\ seg # <<".">>)
Path(dir, file) ==
    IF file # <<>> /\ file[1] = "/" THEN <<"/">> \o PathSegments(file)
    ELSE <<dir>> \o PathSegments(file)

\* lines 171-182
get_focus_file_path(prune_concept, env_name) ==
    LET id == EnvIdentifier(env_name)
    IN IF id.raised # "none" THEN id
       ELSE IF prune_concept = "default"
            THEN [raised |-> "none", value |-> Path("FOCUS_FILES_DIR", id.value \o YAML)]
       ELSE IF prune_concept = "unpruned"
            THEN [raised |-> "none",
                  value |-> Path("FOCUS_FILES_DIR_UNPRUNED",
                                 DEFAULT_FOCUS_ \o From4(env_name) \o YAML)]
       ELSE [raised |-> "ValueError", value |-> <<>>]

\* ---- inputs ----
Alphabet == {"A", "L", "E", "/", "-", "P"}
RECURSIVE StringsUpTo(_)
StringsUpTo(n) ==
    IF n = 0 THEN {<<>>}
    ELSE LET shorter == StringsUpTo(n - 1)
         IN shorter \cup {Append(s, c) : s \in shorter, c \in Alphabet}
NameSamples ==
    { <<"A", "L", "E", "/", "P", "o", "n", "g", "-", "v", "5">>,
      <<"A", "L", "E", "/", "B", "r", "e", "a", "k", "o", "u", "t", "-", "v", "5">>,
      <<"M", "y", "C", "u", "s", "t", "o", "m", "G", "a", "m", "e">>,
      <<"A", "L", "E", "X">>,
      <<"P", "A", "L", "E", "/", "M", "o", "o", "n">>,
      <<"P", "o", "n", "g">> }
Names == StringsUpTo(MaxNameLen) \cup NameSamples
PruneConcepts == {"default", "unpruned", "bogus", "None"}

InitFocus ==
    /\ f_fn \in {"get_pruned_focus_file_from_env_name", "get_focus_file_path"}
    /\ f_name \in Names
    /\ f_concept \in (IF f_fn = "get_focus_file_path" THEN PruneConcepts ELSE {"None"})
    /\ f_pc = "call"
    /\ f_out = [raised |-> "none", value |-> <<>>]

CallPrunedFocusFile ==
    /\ f_pc = "call"
    /\ f_fn = "get_pruned_focus_file_from_env_name"
    /\ f_out' = get_pruned_focus_file_from_env_name(f_name)
    /\ f_pc' = "done"
    /\ UNCHANGED <<f_fn, f_name, f_concept>>
    /\ UNCHANGED <<logger_vars, env_vars>>

CallFocusFilePath ==
    /\ f_pc = "call"
    /\ f_fn = "get_focus_file_path"
    /\ f_out' = get_focus_file_path(f_concept, f_name)
    /\ f_pc' = "done"
    /\ UNCHANGED <<f_fn, f_name, f_concept>>
    /\ UNCHANGED <<logger_vars, env_vars>>

(***************************************************************************)
(* Environment factory                                                     *)
(***************************************************************************)
\* line 62: eval_seed = (seed + 42) * 2  # different seeds for eval
EvalSeed(seed) == (seed + 42) * 2

\* lines 96-104: the pruning concept resolved to (focus_dir, pruned_ff_name)
ResolveDefaulting(prune_concept, name) ==
    IF prune_concept = "unpruned"
    THEN [raised |-> "none", focus_dir |-> "FOCUS_FILES_DIR_UNPRUNED", pruned_ff_name |-> None]
    ELSE LET f == get_pruned_focus_file_from_env_name(name)
         IN [raised |-> f.raised, focus_dir |-> "FOCUS_FILES_DIR", pruned_ff_name |-> f.value]
ResolvePruneConcept(prune_concept, name) ==
    IF prune_concept = "unpruned"
    THEN [raised |-> "none", focus_dir |-> "FOCUS_FILES_DIR_UNPRUNED", pruned_ff_name |-> None]
    ELSE IF prune_concept = "default"
    THEN LET f == get_pruned_focus_file_from_env_name(name)
         IN [raised |-> f.raised, focus_dir |-> "FOCUS_FILES_DIR", pruned_ff_name |-> f.value]
    ELSE [raised |-> "ValueError", focus_dir |-> "unset", pruned_ff_name |-> None]

\* lines 129-132 (object-centric pipeline)
SelectFromOne(n_envs) == IF n_envs >= 1 THEN "SubprocVecEnv" ELSE "DummyVecEnv"
SelectVecEnvOC(n_envs) == IF n_envs > 1 THEN "SubprocVecEnv" ELSE "DummyVecEnv"

\* lines 145-150 (pixel pipeline)
SelectVecEnvPixel(n_envs) == IF n_envs > 1 THEN "SubprocVecEnv" ELSE "DummyVecEnv"

\* lines 116-127: one factory per rank 0..n_envs-1 (range(n_envs) is empty
\* for n_envs <= 0); line 49 seeds worker `rank` with seed + rank
Factories(n_envs, seed) ==
    [i \in 1..n_envs |-> [rank |-> i - 1, seed |-> seed + (i - 1)]]

\* lines 127-132 and 151-157: whether building the container may fail (TRUE)
\* or succeed (FALSE). A library call may always fail; over the empty factory
\* list that range(n_envs) yields for n_envs <= 0 no container can be built.
ContainerOutcomes(n_envs) == IF n_envs < 1 THEN {TRUE} ELSE BOOLEAN

\* An exception in init_vec_env or init_train_eval_envs is caught nowhere
\* (lines 56-160 hold no try): it reaches the caller, who receives no value.
\* partial is what the call had built when the exception was raised.
PropagateSwallowed(exc, partial) == [raised |-> "none", ret |-> partial]
Propagate(exc, partial) == [raised |-> exc, ret |-> <<>>]

\* The locals of an init_vec_env invocation at its entry
NewLocals(n_envs, seed, train, reward_mode, render_mode) ==
    [n_envs |-> n_envs, seed |-> seed, train |-> train, reward_mode |-> reward_mode,
     render_mode |-> render_mode, focus_dir |-> "unset", pruned_ff_name |-> None,
     monitor |-> None, envs |-> <<>>, vec_env_cls |-> "unset", vec_env |-> None,
     env |-> None]

\* The objects the library constructs
Probe(ph) == [kind |-> "probe", phase |-> ph, cls |-> "Monitor"]
Container(ph, cls) == [kind |-> "vec_env", phase |-> ph, cls |-> cls]
Handle(wrapper, stats, l) ==
    [wrapper |-> wrapper, stats |-> stats, cls |-> l.vec_env_cls, n_envs |-> l.n_envs,
     seed |-> l.seed, training |-> l.train, reward_mode |-> l.reward_mode,
     render_mode |-> l.render_mode]

\* ---- inputs ----
SeedSamples == {-84, -1, 0, 42}
EnvNameSamples ==
    { <<"A", "L", "E", "/", "P", "o", "n", "g", "-", "v", "5">>,
      <<"P", "o", "n", "g">>,
      <<"A", "L", "E", "X">> }
VecNormPaths == {"None", "vec_normalize.pkl"}
EnvCounts == 0..MaxEnvs

InitEnv ==
    /\ entry \in {"init_vec_env", "init_train_eval_envs"}
    /\ args \in [name : EnvNameSamples, n_envs : EnvCounts, n_eval_envs : EnvCounts,
                 seed : SeedSamples, object_centric : BOOLEAN, prune_concept : PruneConcepts,
                 vec_norm_path : VecNormPaths, train : BOOLEAN, render_eval : BOOLEAN]
    \* arguments the entry point does not take are fixed
    /\ entry = "init_vec_env" => args.n_eval_envs = 0 /\ args.render_eval = FALSE
    /\ entry = "init_train_eval_envs" => args.train = TRUE
    /\ pc = "call"
    /\ phase = "none"
    /\ eval_seed = 0
    /\ loc = NewLocals(0, 0, FALSE, "unset", "None")
    /\ train_env = None
    /\ live = {}
    /\ n_built = 0
    /\ fault = "none"
    /\ raised = "none"
    /\ ret = <<>>

\* what the caller's call has built so far that it could be handed
Partial == train_env

\* a step raises exc: the call ends
Raise(exc) ==
    LET out == Propagate(exc, Partial)
    IN /\ fault' = exc
       /\ raised' = out.raised
       /\ ret' = out.ret
       /\ pc' = "ended"

\* the caller calls init_vec_env(...) directly
CallInitVecEnv ==
    /\ pc = "call" /\ entry = "init_vec_env"
    /\ phase' = "single"
    /\ loc' = NewLocals(args.n_envs, args.seed, args.train, "reward_mode", "None")
    /\ pc' = "enter"
    /\ UNCHANGED <<entry, args, eval_seed, train_env, live, n_built, fault, raised, ret>>
    /\ UNCHANGED <<logger_vars, focus_vars>>

\* lines 62-67: eval_seed is computed, then the train handle is requested
CallInitTrainEvalEnvs ==
    /\ pc = "call" /\ entry = "init_train_eval_envs"
    /\ eval_seed' = EvalSeed(args.seed)
    /\ phase' = "train"
    /\ loc' = NewLocals(args.n_envs, args.seed, TRUE, "REWARD_MODE[reward_mode]", "None")
    /\ pc' = "enter"
    /\ UNCHANGED <<entry, args, train_env, live, n_built, fault, raised, ret>>
    /\ UNCHANGED <<logger_vars, focus_vars>>

\* lines 96-104: object-centric pipeline, the pruning concept is resolved
Resolve ==
    /\ pc = "enter" /\ args.object_centric
    /\ LET r == ResolvePruneConcept(args.prune_concept, args.name)
       IN IF r.raised # "none"
          THEN Raise(r.raised) /\ UNCHANGED loc
          ELSE /\ loc' = [loc EXCEPT !.focus_dir = r.focus_dir,
                                     !.pruned_ff_name = r.pruned_ff_name]
               /\ pc' = "probe"
               /\ UNCHANGED <<fault, raised, ret>>
    /\ UNCHANGED <<entry, args, phase, eval_seed, train_env, live, n_built>>
    /\ UNCHANGED <<logger_vars, focus_vars>>

\* lines 107-112: the probe environment is constructed (ScobiEnv, Monitor, reset)
ConstructProbe ==
    /\ pc = "probe"
    /\ \E failed \in BOOLEAN :
         IF ~failed
         THEN /\ loc' = [loc EXCEPT !.monitor = <<Probe(phase)>>]
              /\ live' = live \cup {Probe(phase)}
              /\ n_built' = n_built + 1
              /\ pc' = "check"
              /\ UNCHANGED <<fault, raised, ret>>
         ELSE Raise("LibraryError") /\ UNCHANGED <<loc, live, n_built>>
    /\ UNCHANGED <<entry, args, phase, eval_seed, train_env>>
    /\ UNCHANGED <<logger_vars, focus_vars>>

\* lines 113-114: check_env(monitor.env), then del monitor. del drops the
\* name; nothing closes the probe.
CheckProbe ==
    /\ pc = "check"
    /\ \E failed \in BOOLEAN :
         IF ~failed
         THEN /\ loc' = [loc EXCEPT !.monitor = None]
              /\ pc' = "container"
              /\ UNCHANGED <<fault, raised, ret>>
         ELSE Raise("LibraryError") /\ UNCHANGED loc
    /\ UNCHANGED <<entry, args, phase, eval_seed, train_env, live, n_built>>
    /\ UNCHANGED <<logger_vars, focus_vars>>

\* lines 116-132: the worker factories, the container class, the container
ConstructContainer ==
    /\ pc = "container"
    /\ LET cls == SelectVecEnvOC(loc.n_envs)
           l   == [loc EXCEPT !.envs = Factories(loc.n_envs, loc.seed), !.vec_env_cls = cls]
       IN \E failed \in ContainerOutcomes(loc.n_envs) :
            IF ~failed
            THEN /\ loc' = [l EXCEPT !.vec_env = <<Container(phase, cls)>>]
                 /\ live' = live \cup {Container(phase, cls)}
                 /\ n_built' = n_built + 1
                 /\ pc' = "normalize"
                 /\ UNCHANGED <<fault, raised, ret>>
            ELSE /\ loc' = l
                 /\ Raise("LibraryError")
                 /\ UNCHANGED <<live, n_built>>
    /\ UNCHANGED <<entry, args, phase, eval_seed, train_env>>
    /\ UNCHANGED <<logger_vars, focus_vars>>

\* lines 135-142: VecNormalize, loaded from vec_norm_path or fresh
Normalize ==
    /\ pc = "normalize"
    /\ \E failed \in BOOLEAN :
         IF ~failed
         THEN /\ loc' = [loc EXCEPT !.env =
                    <<Handle("VecNormalize",
                             IF args.vec_norm_path # "None" THEN "loaded" ELSE "fresh", loc)>>]
              /\ pc' = "return"
              /\ UNCHANGED <<fault, raised, ret>>
         ELSE Raise("LibraryError") /\ UNCHANGED loc
    /\ UNCHANGED <<entry, args, phase, eval_seed, train_env, live, n_built>>
    /\ UNCHANGED <<logger_vars, focus_vars>>

\* lines 144-157: pixel pipeline, the container class and make_atari_env
MakeAtariEnv ==
    /\ pc = "enter" /\ ~args.object_centric
    /\ LET cls == SelectVecEnvPixel(loc.n_envs)
           l   == [loc EXCEPT !.vec_env_cls = cls]
       IN \E failed \in ContainerOutcomes(loc.n_envs) :
            IF ~failed
            THEN /\ loc' = [l EXCEPT !.vec_env = <<Container(phase, cls)>>]
                 /\ live' = live \cup {Container(phase, cls)}
                 /\ n_built' = n_built + 1
                 /\ pc' = "framestack"
                 /\ UNCHANGED <<fault, raised, ret>>
            ELSE /\ loc' = l
                 /\ Raise("LibraryError")
                 /\ UNCHANGED <<live, n_built>>
    /\ UNCHANGED <<entry, args, phase, eval_seed, train_env>>
    /\ UNCHANGED <<logger_vars, focus_vars>>

\* line 158: VecFrameStack
FrameStack ==
    /\ pc = "framestack"
    /\ \E failed \in BOOLEAN :
         IF ~failed
         THEN /\ loc' = [loc EXCEPT !.env = <<Handle("VecFrameStack", "none", loc)>>]
              /\ pc' = "return"
              /\ UNCHANGED <<fault, raised, ret>>
         ELSE Raise("LibraryError") /\ UNCHANGED loc
    /\ UNCHANGED <<entry, args, phase, eval_seed, train_env, live, n_built>>
    /\ UNCHANGED <<logger_vars, focus_vars>>

\* line 160, called directly: the handle reaches the caller
ReturnSingle ==
    /\ pc = "return" /\ phase = "single"
    /\ ret' = loc.env
    /\ pc' = "ended"
    /\ UNCHANGED <<entry, args, phase, eval_seed, loc, train_env, live, n_built, fault, raised>>
    /\ UNCHANGED <<logger_vars, focus_vars>>

\* line 160 into lines 63-74: train_env is bound, the eval handle requested
ReturnTrain ==
    /\ pc = "return" /\ phase = "train"
    /\ train_env' = loc.env
    /\ phase' = "eval"
    /\ loc' = NewLocals(args.n_eval_envs, eval_seed, FALSE, "0",
                        IF args.render_eval THEN "human" ELSE "None")
    /\ n_built' = 0
    /\ pc' = "enter"
    /\ UNCHANGED <<entry, args, eval_seed, live, fault, raised, ret>>
    /\ UNCHANGED <<logger_vars, focus_vars>>

\* line 160 into lines 69-75: eval_env is bound, the pair returned
ReturnEval ==
    /\ pc = "return" /\ phase = "eval"
    /\ ret' = train_env \o loc.env
    /\ pc' = "ended"
    /\ UNCHANGED <<entry, args, phase, eval_seed, loc, train_env, live, n_built, fault, raised>>
    /\ UNCHANGED <<logger_vars, focus_vars>>

(***************************************************************************)
(* Specifications                                                          *)
(***************************************************************************)
IdleLogger == InitLogger
IdleEnv ==
    /\ entry = "none"
    /\ args = [name |-> <<>>, n_envs |-> 0, n_eval_envs |-> 0, seed |-> 0,
               object_centric |-> FALSE, prune_concept |-> "None",
               vec_norm_path |-> "None", train |-> FALSE, render_eval |-> FALSE]
    /\ pc = "idle"
    /\ phase = "none"
    /\ eval_seed = 0
    /\ loc = NewLocals(0, 0, FALSE, "unset", "None")
    /\ train_env = None
    /\ live = {}
    /\ n_built = 0
    /\ fault = "none"
    /\ raised = "none"
    /\ ret = <<>>
IdleFocus ==
    /\ f_fn = "none"
    /\ f_name = <<>>
    /\ f_concept = "None"
    /\ f_pc = "idle"
    /\ f_out = [raised |-> "none", value |-> <<>>]

LoggerInit == InitLogger /\ IdleEnv /\ IdleFocus
NextLogger ==
    \/ LogEpisodeCall
    \/ LogDataCall
SpecLogger == LoggerInit /\ [][NextLogger]_vars

EnvInit == InitEnv /\ IdleLogger /\ IdleFocus
NextEnv ==
    \/ CallInitVecEnv
    \/ CallInitTrainEvalEnvs
    \/ Resolve
    \/ ConstructProbe
    \/ CheckProbe
    \/ ConstructContainer
    \/ Normalize
    \/ MakeAtariEnv
    \/ FrameStack
    \/ ReturnSingle
    \/ ReturnTrain
    \/ ReturnEval
SpecEnv == EnvInit /\ [][NextEnv]_vars

FocusInit == InitFocus /\ IdleLogger /\ IdleEnv
NextFocus ==
    \/ CallPrunedFocusFile
    \/ CallFocusFilePath
SpecFocus == FocusInit /\ [][NextFocus]_vars

(***************************************************************************)
(* Claims about the Logger (checked under SpecLogger)                      *)
(***************************************************************************)
HasScalar(tag, value, step) ==
    \E i \in 1..Len(scalars) : scalars[i] = Scalar(tag, value, step)
HasTag(tag) == \E i \in 1..Len(scalars) : scalars[i].tag = tag

\* C1: n_eps is 0 after construction and always equals the number of
\* log_episode calls made; every log_episode call adds exactly 1 to it,
\* log_data leaves it unchanged, and it never decreases.
C1_EpisodeCounter ==
    /\ n_eps = 0
    /\ [][ /\ last_op'.op = "log_episode" => n_eps' = n_eps + 1
           /\ last_op'.op = "log_data" => n_eps' = n_eps
           /\ n_eps' >= n_eps
           /\ n_eps' = n_calls' ]_vars
C1_Witness ==
    /\ last_op.op = "log_data"
    /\ log_raised = "none"
    /\ n_calls = 2
    /\ n_eps = 2

\* C6 (as claimed): log_data emits actor_loss / critic_loss exactly for the
\* losses that are supplied (not None), a supplied zero included, emits
\* policy_entropy and epsilon always, and keys every scalar by step.
C6_SuppliedLossesEmitted ==
    last_op.op = "log_data" =>
        /\ (last_op.actor_loss # None) <=> HasTag(<<"actor_loss">>)
        /\ (last_op.critic_loss # None) <=> HasTag(<<"critic_loss">>)
        /\ last_op.actor_loss # None =>
               HasScalar(<<"actor_loss">>, Val(last_op.actor_loss[1]), last_op.steps)
        /\ last_op.critic_loss # None =>
               HasScalar(<<"critic_loss">>, Val(last_op.critic_loss[1]), last_op.steps)
        /\ HasTag(<<"policy_entropy">>)
        /\ HasTag(<<"epsilon">>)
        /\ \A i \in 1..Len(scalars) : scalars[i].step = last_op.steps

\* C7: in log_episode with ep_steps > 0 the call does not raise, and for every
\* option the value recorded under option_<id>_avg_length is exactly 0 when
\* its length sequence is empty and the arithmetic mean of the lengths
\* (value * count = sum) otherwise.
C7_AvgLength ==
    (last_op.op = "log_episode" /\ last_op.ep_steps > 0) =>
        /\ log_raised = "none"
        /\ \A k \in 1..Len(last_op.option_lengths) :
             LET option == last_op.option_lengths[k][1]
                 lens   == last_op.option_lengths[k][2]
             IN \E i \in 1..Len(scalars) :
                  /\ scalars[i].tag = <<"option", option, "avg_length">>
                  /\ scalars[i].step = n_eps
                  /\ IF Len(lens) = 0
                     THEN scalars[i].value = Val(0)
                     ELSE /\ scalars[i].value.den > 0
                          /\ scalars[i].value.num * Len(lens) = Sum(lens) * scalars[i].value.den
C7_Witness ==
    /\ last_op.op = "log_episode"
    /\ last_op.ep_steps > 0
    /\ log_raised = "none"
    /\ \E k \in 1..Len(last_op.option_lengths) : last_op.option_lengths[k][2] = <<>>
    /\ \E k \in 1..Len(last_op.option_lengths) : Len(last_op.option_lengths[k][2]) > 1

\* C10 (as claimed): a log_episode call with ep_steps == 0 raises the
\* division-by-zero fault for every option_lengths mapping.
C10_ZeroStepsAlwaysRaises ==
    (last_op.op = "log_episode" /\ last_op.ep_steps = 0) =>
        log_raised = "ZeroDivisionError"
\* C10 (amended): a log_episode call with ep_steps == 0 raises the
\* division-by-zero fault for every option_lengths mapping that holds at
\* least one option, and then records no option_<id>_active value; with an
\* empty mapping the loop body never runs and the call returns normally.
C10_ZeroStepsRaisesWithOptions ==
    (last_op.op = "log_episode" /\ last_op.ep_steps = 0) =>
        IF last_op.option_lengths # <<>>
        THEN /\ log_raised = "ZeroDivisionError"
             /\ \A i \in 1..Len(scalars) : scalars[i].tag[Len(scalars[i].tag)] # "active"
        ELSE /\ log_raised = "none"
             /\ Len(scalars) = 2
C10_Witness ==
    /\ last_op.op = "log_episode"
    /\ last_op.ep_steps = 0
    /\ Len(last_op.option_lengths) = 2
    /\ log_raised = "ZeroDivisionError"

(***************************************************************************)
(* Claims about the environment factory (checked under SpecEnv)            *)
(***************************************************************************)
Selected == loc.vec_env_cls # "unset"
BadConcept == args.prune_concept \notin {"default", "unpruned"}
InsideInitVecEnv == pc \notin {"call", "enter", "idle"}

\* C2 (as claimed): in both pipelines the container is DummyVecEnv exactly
\* when n_envs == 1 and SubprocVecEnv exactly when n_envs > 1.
C2_DummyExactlyAtOne ==
    Selected =>
        /\ (loc.vec_env_cls = "DummyVecEnv") <=> (loc.n_envs = 1)
        /\ (loc.vec_env_cls = "SubprocVecEnv") <=> (loc.n_envs > 1)
\* C2 (amended): in both pipelines the container is SubprocVecEnv exactly when
\* n_envs > 1 and DummyVecEnv for every other n_envs (n_envs <= 1, which
\* includes n_envs == 1); the two pipelines make the same choice.
C2_SubprocExactlyAboveOne ==
    /\ Selected =>
        /\ (loc.vec_env_cls = "SubprocVecEnv") <=> (loc.n_envs > 1)
        /\ (loc.vec_env_cls = "DummyVecEnv") <=> (loc.n_envs <= 1)
    /\ SelectVecEnvOC(args.n_envs) = SelectVecEnvPixel(args.n_envs)
    /\ SelectVecEnvOC(args.n_eval_envs) = SelectVecEnvPixel(args.n_eval_envs)
C2_Witness ==
    /\ args.object_centric
    /\ pc = "normalize"
    /\ loc.n_envs = 1
    /\ loc.vec_env_cls = "DummyVecEnv"

\* C3 (as claimed): for every seed, the train handle is built with base seed
\* `seed` and the eval handle with base seed (seed + 42) * 2, which differs
\* from the train base seed.
C3_EvalSeedDiffers ==
    (entry = "init_train_eval_envs" /\ pc = "ended" /\ Len(ret) = 2) =>
        /\ ret[1].seed = args.seed
        /\ ret[2].seed = (args.seed + 42) * 2
        /\ ret[2].seed # ret[1].seed

\* C4 (as claimed): every init_vec_env call whose prune_concept is neither
\* "default" nor "unpruned" ends in ValueError with nothing constructed and
\* no handle returned. Stated for the runs in which no library call fails.
C4_BadConceptAlwaysFails ==
    (InsideInitVecEnv /\ BadConcept /\ fault # "LibraryError") =>
        /\ pc = "ended"
        /\ raised = "ValueError"
        /\ n_built = 0
        /\ ret = <<>>
\* C4 (amended): every init_vec_env call with object_centric true whose
\* prune_concept is neither "default" nor "unpruned" ends in ValueError with
\* nothing constructed, no focus directory substituted and no handle
\* returned; with object_centric false prune_concept is never read and no
\* ValueError is raised.
C4_BadConceptFailsObjectCentric ==
    /\ (InsideInitVecEnv /\ BadConcept /\ args.object_centric) =>
          /\ pc = "ended"
          /\ raised = "ValueError"
          /\ n_built = 0
          /\ live = {}
          /\ loc.focus_dir = "unset"
          /\ loc.vec_env_cls = "unset"
          /\ ret = <<>>
    /\ ~args.object_centric => raised # "ValueError"
C4_Witness ==
    /\ args.object_centric
    /\ args.prune_concept = "bogus"
    /\ pc = "ended"
    /\ raised = "ValueError"

\* C9 (as claimed): when a step of the call fails, nothing constructed
\* earlier in the call remains open.
C9_NothingLeftOpen ==
    fault # "none" => live = {}
\* C9 (amended): when a step of the call fails, the exception reaches the
\* caller unmodified and the caller receives no handle, neither a partial one
\* nor the train handle built before an eval failure; the call closes
\* nothing, so a train handle built before the failure stays open. A call
\* that returns returns every handle it was asked for.
C9_NoHandleReturnedOnFailure ==
    pc = "ended" =>
        IF fault # "none"
        THEN /\ raised = fault
             /\ ret = <<>>
             /\ train_env # None => Container("train", train_env[1].cls) \in live
        ELSE /\ raised = "none"
             /\ Len(ret) = (IF entry = "init_train_eval_envs" THEN 2 ELSE 1)
C9_Witness ==
    /\ pc = "ended"
    /\ phase = "eval"
    /\ fault = "LibraryError"
    /\ train_env # None
    /\ n_built > 0

(***************************************************************************)
(* Claims about the focus-file derivations (checked under SpecFocus)       *)
(***************************************************************************)
Digits == {"0", "1", "2", "3", "4", "5", "6", "7", "8", "9"}
\* name = "ALE/" + game + "-v" + rev, cut at position i
AtariCut(name, i) ==
    /\ i > 5
    /\ i + 2 <= Len(name)
    /\ SubSeq(name, 1, 4) = <<"A", "L", "E", "/">>
    /\ SubSeq(name, i, i + 1) = <<"-", "v">>
    /\ \A j \in 5..(i - 1) : name[j] \notin {"/", "-"}
    /\ \A j \in (i + 2)..Len(name) : name[j] \in Digits
IsAtariStyle(name) == \E i \in 1..Len(name) : AtariCut(name, i)
Game(name) == LET i == CHOOSE i \in 1..Len(name) : AtariCut(name, i)
              IN SubSeq(name, 5, i - 1)

\* C5 (as claimed): get_focus_file_path with a prune_concept other than
\* "default" or "unpruned" raises the ValueError for every env_name.
C5_BadConceptIsValueError ==
    (f_pc = "done" /\ f_fn = "get_focus_file_path"
        /\ f_concept \notin {"default", "unpruned"}) =>
        f_out.raised = "ValueError"

\* C8 (as claimed): get_pruned_focus_file_from_env_name maps
\* "ALE/<Game>-v<rev>" to lower(<Game>) + ".yaml" and every other name to the
\* name + ".yaml" without raising; get_focus_file_path("default", name) is
\* the default focus directory joined with that file name.
C8_FocusFileName ==
    /\ (f_pc = "done" /\ f_fn = "get_pruned_focus_file_from_env_name") =>
          /\ f_out.raised = "none"
          /\ f_out.value = (IF IsAtariStyle(f_name) THEN Lower(Game(f_name)) ELSE f_name) \o YAML
    /\ (f_pc = "done" /\ f_fn = "get_focus_file_path" /\ f_concept = "default") =>
          /\ f_out.raised = "none"
          /\ f_out.value =
                Path("FOCUS_FILES_DIR", get_pruned_focus_file_from_env_name(f_name).value)

====
